---- MODULE Spec2Model ----
(***************************************************************************)
(* A state-machine model of the typestorm animation code:                  *)
(*   - TextEngine (core/TextEngine.ts): playText / stop / dispose and the  *)
(*     tweens and timers they hand to the GSAP ticker and the event loop;  *)
(*   - SimpleTypeStormRenderer and TypeStormCLIBridge: applyPreset and     *)
(*     exportVideo.                                                        *)
(* Times are integers in milliseconds.  Opacity and scale are in percent,  *)
(* y in pixels, rotation and hue-rotate in degrees.                        *)
(*                                                                         *)
(* GSAP is modelled by what the code relies on: a tween created with       *)
(* gsap.to / timeline.to lives on the timeline it was added to, starts at  *)
(* that timeline's start time plus its position, runs for                  *)
(* duration * (repeat + 1), writes its end values into its target when it  *)
(* ends, and is only removed early by kill() of the timeline that holds    *)
(* it.  A timeline's clock starts when the timeline is created.            *)
(***************************************************************************)
EXTENDS Integers, Sequences, FiniteSets, TLC

VARIABLES
    impl,                  \* which class the page runs: "engine", "simple" or "bridge"
    now,                   \* wall clock, ms
    prefersReducedMotion,  \* TextEngine.prefersReducedMotion
    mediaQuery,            \* window.matchMedia('(prefers-reduced-motion: reduce)').matches
    stage,                 \* child elements of the stage / #text-container, in DOM order
    chars,                 \* chars[g][i]: style state of character i made by playText call g
    seqs,                  \* seqs[g]: the animation sequence started by playText call g
    tweens,                \* tweens alive on any GSAP timeline
    timers,                \* pending setTimeout callbacks
    stopped,               \* stop() or dispose() was called after the last playText
    entered,               \* entered[g]: character states at the first and the latest Entering
    latestEmbed,           \* window.latestEmbed
    background,            \* document.body.style.background
    timeline,              \* the renderer's timeline (this.timeline / the one applyPreset built)
    applied,               \* outcome of the last applyPreset call
    exports,               \* exports[k]: the k-th exportVideo call
    layouts,               \* layouts[k]: arguments and result of the k-th generateLayout call
    rafLoops,              \* number of render loops that keep requesting animation frames
    globals,               \* the libraries whose global is defined: THREE, gsap, TypeStorm
    waits,                 \* waits[w]: the dependency-polling wait of that name, once started
    startup,               \* the renderer's initialize(): its promise, isReady, initializeGSAP
    reel                   \* the generateReel run of the command line

vars == <<impl, now, prefersReducedMotion, mediaQuery, stage, chars, seqs, tweens,
          timers, stopped, entered, latestEmbed, background, timeline, applied,
          exports, layouts, rafLoops, globals, waits, startup, reel>>

engineVars == <<prefersReducedMotion, mediaQuery, chars, seqs, tweens, stopped, entered,
                latestEmbed>>
rendererVars == <<background, timeline, applied, exports, layouts, rafLoops>>
hostVars == <<globals, waits, startup, reel>>

-----------------------------------------------------------------------------
(* Bounds of the exploration *)

MaxLen == 2        \* longest text
MaxCycles == 2     \* cycles of a looped sequence that are followed
MaxCalls == 2      \* playText / applyPreset calls in one run of the replay specification
MaxExports == 2    \* exportVideo calls in one run
MaxChars == 10     \* longest text handed to generateLayout on its own

\* the texts tried: the prefixes of "a a a ..." up to MaxLen characters
SampleChar(i) == IF i % 2 = 1 THEN "a" ELSE " "
Texts == {[i \in 1..n |-> SampleChar(i)] : n \in 0..MaxLen}

Max(a, b) == IF a >= b THEN a ELSE b
Min(a, b) == IF a <= b THEN a ELSE b
MaxOf(S) == CHOOSE x \in S : \A y \in S : y <= x
RECURSIVE MinOf(_)
MinOf(S) == LET x == CHOOSE y \in S : TRUE
            IN  IF S = {x} THEN x ELSE Min(x, MinOf(S \ {x}))

-----------------------------------------------------------------------------
(* TextEffectOptions and the defaults playText applies *)

EntranceTypes == {"fade", "slide", "scale", "typewriter"}
LoopTypes == {"pulse", "tilt", "hue", "none"}
ExitTypes == {"fade", "slide", "scale", "typewriter", "none"}

\* The options a caller passes.  A numeric field that is left out (or 0) is
\* falsy and gets its default; entrance, loop and exit are always set by the UI.
AllOptions ==
    [entrance : EntranceTypes, loop : LoopTypes, exit : ExitTypes,
     loopAnimation : BOOLEAN, typewriterSpeed : {0},
     duration : {0}, loopDuration : {0}]

\* JavaScript's v || d on a number
OrDefault(v, d) == IF v = 0 THEN d ELSE v

\* const config = { entrance: options.entrance || 'fade', ..., ...options }
Config(o) ==
    [entrance |-> o.entrance,
     loop |-> o.loop,
     exit |-> o.exit,
     loopAnimation |-> o.loopAnimation,
     typewriterSpeed |-> OrDefault(o.typewriterSpeed, 10),
     duration |-> OrDefault(o.duration, 500),
     loopDuration |-> OrDefault(o.loopDuration, 3000)]

-----------------------------------------------------------------------------
(* Character style state and tween variables *)

Props == {"opacity", "y", "scale", "rotation", "filter", "scaleX"}

\* a span as createCharacters makes it: opacity 0, no transform, no filter
CreatedState ==
    [p \in Props |-> CASE p = "opacity" -> 0
                       [] p = "scale" -> 100
                       [] p = "scaleX" -> 100
                       [] OTHER -> 0]

\* gsap.set(target, vs): vs is a set of <<property, value>> pairs
SetVars(st, vs) ==
    [p \in Props |-> IF \E v \in vs : v[1] = p
                     THEN (CHOOSE v \in vs : v[1] = p)[2]
                     ELSE st[p]]

getEntranceInitialState(type) ==
    CASE type = "slide" -> {<<"opacity", 0>>, <<"y", 20>>}
      [] type = "scale" -> {<<"opacity", 0>>, <<"scale", 80>>}
      [] type = "typewriter" -> {<<"opacity", 0>>, <<"scaleX", 0>>}
      [] OTHER -> {<<"opacity", 0>>}

getEntranceFinalState(type) ==
    CASE type = "slide" -> {<<"opacity", 100>>, <<"y", 0>>}
      [] type = "scale" -> {<<"opacity", 100>>, <<"scale", 100>>}
      [] type = "typewriter" -> {<<"opacity", 100>>, <<"scaleX", 100>>}
      [] OTHER -> {<<"opacity", 100>>}

getExitFinalState(type) ==
    CASE type = "slide" -> {<<"opacity", 0>>, <<"y", -20>>}
      [] type = "scale" -> {<<"opacity", 0>>, <<"scale", 80>>}
      [] type = "typewriter" -> {<<"opacity", 0>>, <<"scaleX", 0>>}
      [] OTHER -> {<<"opacity", 0>>}

getLoopAnimationPulse(type) ==
    [duration |-> 2000, props |-> {<<"opacity", 80>>}]

getLoopAnimation(type) ==
    CASE type = "tilt" -> [duration |-> 4000, props |-> {<<"rotation", 2>>}]
      [] type = "hue" -> [duration |-> 6000, props |-> {<<"filter", 10>>}]
      [] OTHER -> [duration |-> 2000, props |-> {<<"opacity", 80>>}]

-----------------------------------------------------------------------------
(* Tweens *)

InfiniteRepeat == -1      \* repeat: -1
InterCycleDelay == 500    \* setTimeout(loopSequence, 500)
RevealTime == 50          \* duration: 0.05 of a typewriter reveal / hide

\* One tween on one target.  idx is the index of the character it animates;
\* idx 0 is a callback or tween whose target is not a single character.
Tween(g, c, phase, i, start, dur, repeat, yoyo, vs, tl) ==
    [gen |-> g, cyc |-> c, phase |-> phase, idx |-> i, s |-> start, dur |-> dur,
     repeat |-> repeat, yoyo |-> yoyo, vars |-> vs, tl |-> tl, started |-> FALSE]

Finite(t) == t.repeat # InfiniteRepeat
End(t) == t.s + t.dur * (t.repeat + 1)
TotalEnd(tws) == MaxOf({End(t) : t \in tws})

\* the values a tween leaves in its target: with yoyo an even number of plays
\* ends where it began
FinalVars(t) == IF t.yoyo /\ t.repeat % 2 = 1 THEN {} ELSE t.vars

\* gsap.to(chars, {stagger, ...}) / timeline.to(chars, {stagger, ...}):
\* one tween per character, character i delayed by stagger * i
StaggerTo(g, c, phase, n, start, dur, stagger, repeat, yoyo, vs, tl) ==
    {Tween(g, c, phase, i, start + stagger * (i - 1), dur, repeat, yoyo, vs, tl) :
        i \in 1..n}

Reverse(s) == [k \in 1..Len(s) |-> s[Len(s) + 1 - k]]

CharDelay(cfg) == 1000 \div OrDefault(cfg.typewriterSpeed, 10)

EntranceDuration(cfg) ==
    IF prefersReducedMotion THEN 100 ELSE OrDefault(cfg.duration, 300)
EntranceStagger == IF prefersReducedMotion THEN 0 ELSE 20

\* the tweens createTypewriterEntrance puts on its own timeline
createTypewriterEntrance(g, c, n, cfg, t) ==
    {Tween(g, c, "entrance", i, t + (i - 1) * CharDelay(cfg), RevealTime, 0, FALSE,
           {<<"opacity", 100>>}, "typewriter") : i \in 1..n}

\* the tweens createTypewriterExit puts on its own timeline: chars.reverse(),
\* forEach((char, index) => ... index * charDelay), chars.reverse()
createTypewriterExit(g, c, n, cfg, t) ==
    LET order == Reverse([i \in 1..n |-> i])
    IN  {Tween(g, c, "exit", order[k], t + (k - 1) * CharDelay(cfg), RevealTime, 0,
               FALSE, {<<"opacity", 0>>}, "typewriter") : k \in 1..n}

createLoopOnce(g, n, type, t) ==
    IF prefersReducedMotion THEN {}
    ELSE LET la == getLoopAnimation(type)
         IN  StaggerTo(g, 1, "loop", n, t, la.duration, 50, 0, TRUE, la.props, "global")

\* createLoop: nothing under reduced motion, else an endless yoyo tween
createLoop(g, n, type, t) ==
    IF prefersReducedMotion THEN {}
    ELSE LET la == getLoopAnimation(type)
         IN  StaggerTo(g, 1, "loop", n, t, la.duration, 50, InfiniteRepeat, TRUE,
                       la.props, "global")

\* timeline.kill() of this.timeline: removes the tweens that timeline holds
kill(tws) == {t \in tws : t.tl # "this.timeline"}

-----------------------------------------------------------------------------
(* The sequence a playText call starts.  pc is where its async code waits:   *)
(*   "idle"        nothing running (empty text)                              *)
(*   "entrance"    playText awaits createEntrance (single sequence)          *)
(*   "looping"     playText has called createLoop (single sequence)          *)
(*   "twEntrance"  loopSequence awaits createTypewriterEntrance              *)
(*   "twExit"      loopSequence awaits createTypewriterExit                  *)
(*   "complete"    loopSequence awaits loopTimeline's onComplete             *)
(*   "delay"       setTimeout(loopSequence, 500) is pending                  *)
(* tlStart / tlDur / tlDone describe loopTimeline of the current cycle, cb   *)
(* whether an onComplete callback is registered on it.                       *)

\* createEntrance as playText calls it in a single sequence
createEntrance(g, sq, t) ==
    LET cfg == sq.cfg
        tws == IF cfg.entrance = "typewriter"
               THEN createTypewriterEntrance(g, 1, sq.n, cfg, t)
               ELSE StaggerTo(g, 1, "entrance", sq.n, t, EntranceDuration(cfg),
                              EntranceStagger, 0, FALSE,
                              getEntranceFinalState(cfg.entrance), "global")
    IN  [seq |-> [sq EXCEPT !.pc = "entrance", !.awaitEnd = TotalEnd(tws)],
         tweens |-> tws,
         set |-> IF cfg.entrance = "typewriter" THEN {<<"opacity", 0>>}
                 ELSE getEntranceInitialState(cfg.entrance)]

\* loopSequence from "Phase 2: Hold and loop" to the await on onComplete
HoldAndExit(g, sq, t) ==
    LET cfg == sq.cfg
        holdDuration == OrDefault(cfg.loopDuration, 3000)
        la == getLoopAnimation(cfg.loop)
        at2 == sq.tlStart + sq.tlDur
        hold == IF ~prefersReducedMotion /\ cfg.loop # "none"
                THEN StaggerTo(g, sq.cyc, "loop", sq.n, at2, la.duration, 50,
                               holdDuration \div la.duration, TRUE, la.props,
                               "loopTimeline")
                ELSE {Tween(g, sq.cyc, "hold", 0, at2, holdDuration, 0, FALSE, {},
                            "loopTimeline")}
        at3 == TotalEnd(hold)
        exit == IF cfg.exit = "none" THEN {}
                ELSE IF cfg.exit = "typewriter"
                THEN createTypewriterExit(g, sq.cyc, sq.n, cfg, t)
                ELSE StaggerTo(g, sq.cyc, "exit", sq.n, at3, EntranceDuration(cfg),
                               EntranceStagger, 0, FALSE,
                               getExitFinalState(cfg.exit), "loopTimeline")
        onTl == {x \in hold \cup exit : x.tl = "loopTimeline"}
    IN  [seq |-> [sq EXCEPT
                    !.tlDur = TotalEnd(onTl) - sq.tlStart,
                    !.pc = IF cfg.exit = "typewriter" THEN "twExit" ELSE "complete",
                    !.cb = cfg.exit # "typewriter",
                    !.awaitEnd = IF cfg.exit = "typewriter" THEN TotalEnd(exit) ELSE @],
         tweens |-> hold \cup exit,
         set |-> {}]

\* one run of loopSequence up to its first await that does not resolve at once
loopSequence(g, sq, t) ==
    LET cfg == sq.cfg
        base == [sq EXCEPT !.tlStart = t, !.tlDur = 0, !.tlDone = FALSE, !.cb = FALSE]
    IN  IF cfg.entrance = "typewriter"
        THEN LET tws == createTypewriterEntrance(g, sq.cyc, sq.n, cfg, t)
             IN  [seq |-> [base EXCEPT !.pc = "twEntrance", !.awaitEnd = TotalEnd(tws)],
                  tweens |-> tws,
                  set |-> {<<"opacity", 0>>}]
        ELSE LET init == Tween(g, sq.cyc, "set", 0, t, 0, 0, FALSE,
                               getEntranceInitialState(cfg.entrance), "loopTimeline")
                 ent == StaggerTo(g, sq.cyc, "entrance", sq.n, t, EntranceDuration(cfg),
                                  EntranceStagger, 0, FALSE,
                                  getEntranceFinalState(cfg.entrance), "loopTimeline")
                 r == HoldAndExit(g, [base EXCEPT !.tlDur = TotalEnd(ent) - t], t)
             IN  [seq |-> r.seq, tweens |-> {init} \cup ent \cup r.tweens, set |-> {}]

NBSP == "nbsp"

\* generateEmbedCode: the script tag written to window.latestEmbed, by the
\* attributes that depend on the call
generateEmbedCode(text, cfg) ==
    [text |-> text, entrance |-> cfg.entrance, loop |-> cfg.loop, exit |-> cfg.exit]

NoEmbed == [text |-> <<>>, entrance |-> "", loop |-> "", exit |-> ""]

\* createCharacters: one span per character, a space shown as U+00A0
createCharacters(g, text) ==
    [i \in 1..Len(text) |->
        [gen |-> g, idx |-> i, ch |-> IF text[i] = " " THEN NBSP ELSE text[i]]]

-----------------------------------------------------------------------------
(* TextEngine operations *)

\* the state the characters are in when the entrance starts to animate them:
\* the entrance's initial state is applied on top of what they have
EnteringState(cfg, cs) ==
    IF cfg.entrance = "typewriter"
    THEN [i \in DOMAIN cs |-> SetVars(cs[i], {<<"opacity", 0>>})]
    ELSE [i \in DOMAIN cs |-> SetVars(cs[i], getEntranceInitialState(cfg.entrance))]

NewSequence(text, cfg) ==
    [text |-> text, cfg |-> cfg, n |-> Len(text), pc |-> "idle", cyc |-> 1, tlStart |-> now, tlDur |-> 0,
     tlDone |-> FALSE, cb |-> FALSE, awaitEnd |-> 0, fault |-> "none",
     preference |-> mediaQuery]

\* playText(text, options)
PlayText(text, o) ==
    LET g == Len(seqs) + 1
        cfg == Config(o)
        n == Len(text)
        sq == NewSequence(text, cfg)
        r == IF n = 0 THEN [seq |-> sq, tweens |-> {}, set |-> {}]
             ELSE IF cfg.loopAnimation THEN loopSequence(g, sq, now)
             ELSE createEntrance(g, sq, now)
        made == [i \in 1..n |-> SetVars(CreatedState, r.set)]
    IN  /\ impl = "engine"
        /\ stage' = createCharacters(g, text)
        /\ chars' = Append(chars, made)
        /\ seqs' = Append(seqs, r.seq)
        /\ tweens' = kill(tweens) \cup r.tweens
        /\ stopped' = FALSE
        /\ entered' = Append(entered, [first |-> EnteringState(cfg, made),
                                        last |-> EnteringState(cfg, made)])
        \* a looped sequence returns at once and the embed code is generated;
        \* a single sequence generates it after the awaited entrance
        /\ latestEmbed' = IF n > 0 /\ cfg.loopAnimation THEN generateEmbedCode(text, cfg)
                          ELSE latestEmbed
        /\ UNCHANGED <<impl, now, prefersReducedMotion, mediaQuery, timers>>
        /\ UNCHANGED rendererVars
        /\ UNCHANGED hostVars

\* playText(text, options) when GSAP throws while the first tween of the
\* animation is created.  In a single sequence the error rejects the promise
\* playText awaits, and its catch sets the characters to opacity 1.  In a
\* looped sequence the error is raised inside the async loopSequence, whose
\* promise createLoopedSequence drops: playText's catch never runs.
PlayTextError(text, o) ==
    LET g == Len(seqs) + 1
        cfg == Config(o)
        n == Len(text)
        sq == NewSequence(text, cfg)
        initial == IF cfg.entrance = "typewriter" THEN {<<"opacity", 0>>}
                   ELSE getEntranceInitialState(cfg.entrance)
        made == IF cfg.loopAnimation
                THEN [i \in 1..n |-> CreatedState]
                ELSE [i \in 1..n |->
                        SetVars(SetVars(CreatedState, initial), {<<"opacity", 100>>})]
    IN  /\ impl = "engine"
        /\ n > 0
        /\ stage' = createCharacters(g, text)
        /\ chars' = Append(chars, made)
        /\ seqs' = Append(seqs, [sq EXCEPT !.pc = "failed",
                        !.fault = IF cfg.loopAnimation THEN "unhandled" ELSE "caught"])
        /\ tweens' = kill(tweens)
        /\ stopped' = FALSE
        /\ entered' = Append(entered, [first |-> made, last |-> made])
        /\ latestEmbed' = IF cfg.loopAnimation THEN generateEmbedCode(text, cfg)
                          ELSE latestEmbed
        /\ UNCHANGED <<impl, now, prefersReducedMotion, mediaQuery, timers>>
        /\ UNCHANGED rendererVars
        /\ UNCHANGED hostVars

\* stop()
Stop ==
    /\ impl = "engine"
    /\ tweens' = kill(tweens)
    /\ stopped' = TRUE
    /\ UNCHANGED <<impl, now, prefersReducedMotion, mediaQuery, stage, chars, seqs, timers,
                   entered, latestEmbed>>
    /\ UNCHANGED rendererVars
    /\ UNCHANGED hostVars

\* dispose()
Dispose ==
    /\ impl = "engine"
    /\ tweens' = kill(tweens)
    /\ stage' = <<>>
    /\ stopped' = TRUE
    /\ UNCHANGED <<impl, now, prefersReducedMotion, mediaQuery, chars, seqs, timers, entered,
                   latestEmbed>>
    /\ UNCHANGED rendererVars
    /\ UNCHANGED hostVars

-----------------------------------------------------------------------------
(* The GSAP ticker and the event loop *)

\* timers of sequences whose next cycle is still followed
ActiveTimers == {tm \in timers : tm.kind # "loopSequence" \/ seqs[tm.id].cyc < MaxCycles}

PendingTimes ==
    {t.s : t \in {u \in tweens : ~u.started}}
        \cup {End(t) : t \in {u \in tweens : Finite(u)}}

NextTick == Max(now, MinOf(PendingTimes))

PhaseRank(ph) ==
    CASE ph = "set" -> 0 [] ph = "entrance" -> 1 [] ph = "loop" -> 2
      [] ph = "hold" -> 2 [] OTHER -> 3

\* the end values of the tweens that end in one tick, written in the order the
\* tweens were created
RECURSIVE WriteEnds(_, _)
WriteEnds(st, tws) ==
    IF tws = {} THEN st
    ELSE LET t == CHOOSE x \in tws :
                    \A y \in tws : x.cyc * 4 + PhaseRank(x.phase)
                                    <= y.cyc * 4 + PhaseRank(y.phase)
         IN  WriteEnds(SetVars(st, FinalVars(t)), tws \ {t})

\* loopTimeline of the sequence has played all its children by time T
TimelineComplete(sq, T) ==
    sq.cfg.loopAnimation /\ sq.tlDur > 0 /\ ~sq.tlDone /\ sq.tlStart + sq.tlDur <= T

\* loopTimeline completes: onComplete runs if a callback is registered, and
\* the resumed loopSequence then calls setTimeout(loopSequence, 500)
AfterTimeline(g, sq, T) ==
    IF TimelineComplete(sq, T)
    THEN IF sq.cb
         THEN [seq |-> [sq EXCEPT !.tlDone = TRUE, !.pc = "delay"],
               timers |-> {[kind |-> "loopSequence", id |-> g,
                            due |-> T + InterCycleDelay]}]
         ELSE [seq |-> [sq EXCEPT !.tlDone = TRUE], timers |-> {}]
    ELSE [seq |-> sq, timers |-> {}]

\* the awaited entrance / exit promise resolves and the async function resumes
AfterPromise(g, sq, T) ==
    IF sq.pc \in {"twEntrance", "twExit", "entrance"} /\ sq.awaitEnd <= T
    THEN CASE sq.pc = "twEntrance" -> HoldAndExit(g, sq, T)
           [] sq.pc = "twExit" ->
                [seq |-> [sq EXCEPT !.pc = "complete", !.cb = TRUE],
                 tweens |-> {}, set |-> {}]
           [] OTHER ->
                [seq |-> [sq EXCEPT !.pc = "looping"],
                 tweens |-> createLoop(g, sq.n, sq.cfg.loop, T), set |-> {}]
    ELSE [seq |-> sq, tweens |-> {}, set |-> {}]

\* one tick of the GSAP ticker at the next time a tween starts or ends: every
\* tween due by then is rendered, completed timelines fire onComplete and the
\* promise continuations run
GsapTick ==
    /\ impl = "engine"
    /\ PendingTimes # {}
    /\ \E T \in {NextTick} :
       \E ending \in {{t \in tweens : Finite(t) /\ End(t) <= T}} :
       LET running == {[t EXCEPT !.started = (t.s <= T)] : t \in tweens \ ending}
           a == [g \in DOMAIN seqs |-> AfterTimeline(g, seqs[g], T)]
           b == [g \in DOMAIN seqs |-> AfterPromise(g, a[g].seq, T)]
       IN  /\ \A tm \in ActiveTimers : T <= tm.due
           /\ now' = T
           /\ chars' = [g \in DOMAIN chars |-> [i \in DOMAIN chars[g] |->
                          WriteEnds(chars[g][i],
                                    {t \in ending : t.gen = g /\ t.idx \in {0, i}})]]
           /\ seqs' = [g \in DOMAIN seqs |-> b[g].seq]
           /\ tweens' = running \cup UNION {b[g].tweens : g \in DOMAIN seqs}
           /\ timers' = timers \cup UNION {a[g].timers : g \in DOMAIN seqs}
           \* the playText calls whose awaited entrance resolved go on to
           \* createLoop and generateEmbedCode, in the order of the calls
           /\ \E resumed \in {{g \in DOMAIN seqs :
                                 seqs[g].pc = "entrance" /\ b[g].seq.pc = "looping"}} :
                latestEmbed' = IF resumed = {} THEN latestEmbed
                               ELSE generateEmbedCode(seqs[MaxOf(resumed)].text,
                                                      seqs[MaxOf(resumed)].cfg)
    /\ UNCHANGED <<impl, prefersReducedMotion, mediaQuery, stage, stopped, entered>>
    /\ UNCHANGED rendererVars
    /\ UNCHANGED hostVars

\* the timer set by setTimeout(loopSequence, 500) fires: the next cycle starts
LoopTimerFire(g) ==
    /\ impl = "engine"
    /\ \E tm \in ActiveTimers :
        /\ tm.kind = "loopSequence" /\ tm.id = g
        /\ \A o \in ActiveTimers : tm.due <= o.due
        /\ PendingTimes # {} => tm.due <= NextTick
        /\ LET T == Max(now, tm.due)
               r == loopSequence(g, [seqs[g] EXCEPT !.cyc = @ + 1], T)
               cs == [i \in DOMAIN chars[g] |-> SetVars(chars[g][i], r.set)]
           IN  /\ now' = T
               /\ chars' = [chars EXCEPT ![g] = cs]
               /\ entered' = [entered EXCEPT ![g].last = EnteringState(seqs[g].cfg, cs)]
               /\ seqs' = [seqs EXCEPT ![g] = r.seq]
               /\ tweens' = tweens \cup r.tweens
               /\ timers' = timers \ {tm}
    /\ UNCHANGED <<impl, prefersReducedMotion, mediaQuery, stage, stopped, latestEmbed>>
    /\ UNCHANGED rendererVars
    /\ UNCHANGED hostVars

-----------------------------------------------------------------------------
(* The renderers: preset catalog *)

RegisteredPresets == {"neon", "liquid", "fire", "glitch", "vf-morph"}

\* property names every object literal inherits from Object.prototype
InheritedKeys == {"constructor", "toString", "valueOf", "hasOwnProperty", "__proto__"}

\* the names applyPreset is called with
PresetNames == RegisteredPresets \cup {"nonexistent-preset", "constructor"}

Anim(name, dur, repeat, yoyo, stagger) ==
    [name |-> name, duration |-> dur, repeat |-> repeat, yoyo |-> yoyo,
     stagger |-> stagger]

\* the presets object of loadPreset: styles.background and the animations in
\* the order Object.entries lists them
Presets(i, name) ==
    IF i = "simple"
    THEN CASE name = "neon" ->
                [background |-> "linear-gradient(45deg, #000011, #001122)",
                 animations |-> <<Anim("entrance", 1500, 0, FALSE, 100),
                                  Anim("glow", 2000, InfiniteRepeat, TRUE, 0)>>]
           [] name = "liquid" ->
                [background |-> "linear-gradient(45deg, #001122, #002244)",
                 animations |-> <<Anim("entrance", 2000, 0, FALSE, 150),
                                  Anim("flow", 3000, InfiniteRepeat, FALSE, 200)>>]
           [] name = "fire" ->
                [background |-> "radial-gradient(circle, #220000, #110000)",
                 animations |-> <<Anim("entrance", 1000, 0, FALSE, 80),
                                  Anim("flicker", 400, InfiniteRepeat, TRUE, 100)>>]
           [] name = "glitch" ->
                [background |-> "#000000",
                 animations |-> <<Anim("entrance", 1200, 0, FALSE, 50),
                                  Anim("glitch", 150, InfiniteRepeat, FALSE, 30)>>]
           [] OTHER ->
                [background |-> "linear-gradient(135deg, #111111, #333333)",
                 animations |-> <<Anim("entrance", 2000, 0, FALSE, 200),
                                  Anim("morph", 4000, InfiniteRepeat, TRUE, 300)>>]
    ELSE CASE name = "neon" ->
                [background |-> "#000011",
                 animations |-> <<Anim("fadeIn", 1500, 0, FALSE, 100),
                                  Anim("glow", 2000, InfiniteRepeat, TRUE, 0)>>]
           [] name = "liquid" ->
                [background |-> "#001122",
                 animations |-> <<Anim("flow", 3000, InfiniteRepeat, FALSE, 200),
                                  Anim("wave", 4000, InfiniteRepeat, FALSE, 300)>>]
           [] name = "fire" ->
                [background |-> "#220000",
                 animations |-> <<Anim("flicker", 500, InfiniteRepeat, TRUE, 100),
                                  Anim("burn", 2000, InfiniteRepeat, FALSE, 150)>>]
           [] name = "glitch" ->
                [background |-> "#000000",
                 animations |-> <<Anim("glitch", 200, InfiniteRepeat, FALSE, 50),
                                  Anim("distort", 300, InfiniteRepeat, TRUE, 100)>>]
           [] OTHER ->
                [background |-> "#111111",
                 animations |-> <<Anim("morph", 4000, InfiniteRepeat, TRUE, 300),
                                  Anim("scale", 3000, InfiniteRepeat, TRUE, 400)>>]

\* return presets[presetName] || null: a property lookup on an object literal,
\* which also finds what the literal inherits
loadPreset(name) ==
    IF name \in RegisteredPresets THEN "preset"
    ELSE IF name \in InheritedKeys THEN "inherited"
    ELSE "null"

-----------------------------------------------------------------------------
(* The renderers: applyPreset *)

\* the canvas of initialize(config) with the default size, and the defaults
\* of the layout options
CanvasWidth == 1080
CanvasHeight == 1920
GridSpacing == 100
SpiralRadius == 200
SpiralTurns == 2
RadialRadius == 250

LayoutTypes == {"grid", "spiral", "radial", "wave"}

\* the options argument of generateLayout; a field that is left out is 0
NoOptions == [spacing |-> 0, radius |-> 0, turns |-> 0]

\* Math.ceil(Math.sqrt(n))
CeilSqrt(n) == CHOOSE c \in 0..n : c * c >= n /\ \A d \in 0..n : d * d >= n => c <= d

\* Math.ceil(a / b)
CeilDiv(a, b) == (a + b - 1) \div b

\* x and y are in half pixels.  Angles are kept as fractions of a full turn,
\* <<numerator, denominator>>, and a point on a circle as its centre, radius
\* and angle: the cosine and sine are not evaluated.
generateGridLayoutShort(cs, centerX, centerY, options) ==
    [i \in 1..(Len(cs) - 1) |->
        [char |-> cs[i], x |-> centerX, y |-> centerY, rotation |-> <<0, 1>>,
         scale |-> 100, opacity |-> 100]]

generateGridLayoutRow(cs, centerX, centerY, options) ==
    [i \in 1..Len(cs) |->
        LET spacing == OrDefault(options.spacing, GridSpacing)
        IN  [char |-> cs[i],
             x |-> 2 * centerX - (Len(cs) - 1) * spacing + (i - 1) * 2 * spacing,
             y |-> 2 * centerY,
             rotation |-> <<0, 1>>,
             scale |-> 100, opacity |-> 100]]

generateGridLayout(cs, centerX, centerY, options) ==
    [i \in 1..Len(cs) |->
        LET spacing == OrDefault(options.spacing, GridSpacing)
            cols == CeilSqrt(Len(cs))
            rows == CeilDiv(Len(cs), cols)
            startX == 2 * centerX - (cols - 1) * spacing
            startY == 2 * centerY - (rows - 1) * spacing
        IN  [char |-> cs[i],
             x |-> startX + ((i - 1) % cols) * 2 * spacing,
             y |-> startY + ((i - 1) \div cols) * 2 * spacing,
             rotation |-> <<0, 1>>,
             scale |-> 100, opacity |-> 100]]

generateSpiralLayoutUnwrapped(cs, centerX, centerY, options) ==
    [i \in 1..Len(cs) |->
        LET t == <<(i - 1) * OrDefault(options.turns, SpiralTurns), Len(cs)>>
            r == <<OrDefault(options.radius, SpiralRadius) * (i - 1), Len(cs)>>
        IN  [char |-> cs[i],
             x |-> [centre |-> 2 * centerX, radius |-> r, cos |-> t],
             y |-> [centre |-> 2 * centerY, radius |-> r, sin |-> t],
             rotation |-> t,
             scale |-> 100, opacity |-> 100]]

generateSpiralLayout(cs, centerX, centerY, options) ==
    [i \in 1..Len(cs) |->
        LET radius == OrDefault(options.radius, SpiralRadius)
            turns == OrDefault(options.turns, SpiralTurns)
            t == <<(i - 1) * turns, Len(cs)>>
            r == <<radius * (i - 1), Len(cs)>>
        IN  [char |-> cs[i],
             x |-> [centre |-> 2 * centerX, radius |-> r, cos |-> t],
             y |-> [centre |-> 2 * centerY, radius |-> r, sin |-> t],
             rotation |-> <<t[1] % t[2], t[2]>>,
             scale |-> 100, opacity |-> 100]]

generateRadialLayout(cs, centerX, centerY, options) ==
    [i \in 1..Len(cs) |->
        LET radius == OrDefault(options.radius, RadialRadius)
            angle == <<i - 1, Len(cs)>>
        IN  [char |-> cs[i],
             x |-> [centre |-> 2 * centerX, radius |-> <<radius, 1>>, cos |-> angle],
             y |-> [centre |-> 2 * centerY, radius |-> <<radius, 1>>, sin |-> angle],
             rotation |-> <<4 * angle[1] + angle[2], 4 * angle[2]>>,
             scale |-> 100, opacity |-> 100]]

generateLayoutByStage(text, layoutType, options) ==
    generateGridLayout(text, CanvasWidth \div 2 + Len(stage), CanvasHeight \div 2, options)

\* generateLayout(text, layoutType, options).positions: text.split('') laid
\* out by the layout of that name, any other name by the grid
generateLayout(text, layoutType, options) ==
    LET centerX == CanvasWidth \div 2
        centerY == CanvasHeight \div 2
    IN  CASE layoutType = "spiral" -> generateSpiralLayout(text, centerX, centerY, options)
          [] layoutType = "radial" -> generateRadialLayout(text, centerX, centerY, options)
          [] OTHER -> generateGridLayout(text, centerX, centerY, options)

\* a generateLayout call on the renderer: it computes and returns
GenerateLayout(text, layoutType, options) ==
    /\ impl \in {"simple", "bridge"}
    /\ layouts' = Append(layouts, [text |-> text, layoutType |-> layoutType,
                                    options |-> options,
                                    positions |-> generateLayout(text, layoutType, options)])
    /\ UNCHANGED <<impl, now, stage, timers, background, timeline, applied, exports,
                   rafLoops>>
    /\ UNCHANGED engineVars
    /\ UNCHANGED hostVars

keepScene(st) == st

\* clearScene on the container: container.innerHTML = ''
clearScene(st) == <<>>

createCharacterElementsVisible(call, positions) ==
    LET shown == SelectSeq(positions, LAMBDA pos : pos.char # " ")
    IN  [i \in 1..Len(shown) |->
            [gen |-> call, idx |-> i, ch |-> shown[i].char, style |-> ""]]

\* createCharacterElements: one span per position, appended in order
createCharacterElements(call, positions) ==
    [i \in 1..Len(positions) |->
        [gen |-> call, idx |-> i, ch |-> positions[i].char, style |-> ""]]

\* applyPresetStyles on the characters
applyPresetStyles(name, characters) ==
    [i \in 1..Len(characters) |-> [characters[i] EXCEPT !.style = name]]

\* the tweens addAnimationToTimeline puts on the timeline for the elements of
\* one applyPreset call; the simple renderer places animation k at k * 0.5 s,
\* the bridge places all of them at 0
TimelineTweens(i, call, animations) ==
    [k \in 1..Len(animations) |->
        [anim |-> animations[k], gen |-> call,
         at |-> IF i = "simple" THEN (k - 1) * 500 ELSE 0]]

\* timeline.duration() for n target elements: the end of the last tween.  A
\* tween that repeats forever makes the duration endless; ms is the end of
\* the last tween that ends.
TimelineDuration(tws, n) ==
    LET ends == {tws[k].at + tws[k].anim.stagger * (Max(n, 1) - 1)
                    + tws[k].anim.duration * (tws[k].anim.repeat + 1) :
                 k \in {j \in DOMAIN tws : tws[j].anim.repeat # InfiniteRepeat}}
    IN  [endless |-> \E k \in DOMAIN tws : tws[k].anim.repeat = InfiniteRepeat,
         ms |-> IF ends = {} THEN 0 ELSE MaxOf(ends)]

\* setupAnimations: the tweens of the preset's animations; a timeline that
\* would have no duration gets a one-second tween
setupAnimations(i, call, animations, n) ==
    LET tws == TimelineTweens(i, call, animations)
        d == TimelineDuration(tws, n)
    IN  IF ~d.endless /\ d.ms = 0
        THEN tws \o <<[anim |-> Anim("opacity", 1000, 0, FALSE, 0), gen |-> call, at |-> 0]>>
        ELSE tws

\* the object applyPreset resolves with: the simple renderer reports
\* Math.max(timeline.duration(), 3), the bridge this.timeline.duration()
PresetResult(i, tl, characters) ==
    LET d == TimelineDuration(tl.tweens, Len(characters))
    IN  [duration |-> IF i = "simple" THEN [d EXCEPT !.ms = Max(@, 3000)] ELSE d,
         fps |-> 30,
         characters |-> characters]

NoResult == [duration |-> [endless |-> FALSE, ms |-> 0], fps |-> 0, characters |-> <<>>]

\* this.timeline = null, as the constructor of the bridge leaves it
NullTimeline == [null |-> TRUE]

\* gsap.timeline({ paused: true })
PausedTimeline ==
    [tweens |-> <<>>, playing |-> FALSE, startedAt |-> 0, onGlobal |-> TRUE]

\* applyPreset(text, presetName)
ApplyPreset(text, name) ==
    LET call == applied.call + 1
        found == loadPreset(name)
        characters == createCharacterElements(call, generateLayout(text, "grid", NoOptions))
        \* clearScene: the bridge also clears this.timeline
        cleared == IF impl = "bridge" THEN [timeline EXCEPT !.tweens = <<>>]
                   ELSE timeline
        built == IF impl = "bridge"
                 THEN [cleared EXCEPT !.tweens =
                         setupAnimations(impl, call, Presets(impl, name).animations,
                                         Len(characters))]
                 ELSE [PausedTimeline EXCEPT !.tweens =
                         setupAnimations(impl, call, Presets(impl, name).animations,
                                         Len(characters))]
    IN  /\ impl \in {"simple", "bridge"}
        /\ CASE found # "null" /\ impl = "bridge" /\ timeline = NullTimeline ->
                  \* clearScene empties the container and then calls
                  \* this.timeline.clear() on null: a TypeError
                  /\ applied' = [status |-> "rejected", call |-> call, text |-> text,
                                 name |-> name,
                                 error |-> <<"TypeError", "this.timeline is null">>,
                                 result |-> NoResult]
                  /\ stage' = clearScene(stage)
                  /\ UNCHANGED <<background, timeline>>
             [] found = "null" ->
                  \* throw new Error(`Preset '${presetName}' not found`)
                  /\ applied' = [status |-> "rejected", call |-> call, text |-> text,
                                 name |-> name,
                                 error |-> <<"Preset not found", name>>,
                                 result |-> NoResult]
                  /\ UNCHANGED <<stage, background, timeline>>
             [] found = "inherited" /\ ~(impl = "bridge" /\ timeline = NullTimeline) ->
                  \* the looked-up value has no styles: applyPresetStyles throws
                  \* a TypeError after clearScene and createCharacterElements
                  /\ applied' = [status |-> "rejected", call |-> call, text |-> text,
                                 name |-> name, error |-> <<"TypeError">>,
                                 result |-> NoResult]
                  /\ stage' = clearScene(stage) \o characters
                  /\ timeline' = cleared
                  /\ UNCHANGED background
             [] OTHER ->
                  /\ applied' = [status |-> "resolved", call |-> call, text |-> text,
                                 name |-> name, error |-> <<>>,
                                 result |-> PresetResult(impl, built,
                                               applyPresetStyles(name, characters))]
                  /\ stage' = clearScene(stage) \o applyPresetStyles(name, characters)
                  /\ background' = Presets(impl, name).background
                  /\ timeline' = built
        /\ UNCHANGED <<impl, now, timers, exports, rafLoops, layouts>>
        /\ UNCHANGED engineVars
        /\ UNCHANGED hostVars

-----------------------------------------------------------------------------
(* The renderers: exportVideo *)

ExportDurations == {1, 3}    \* options.duration, seconds

StopDelayBuffered(i, duration) == duration * 1000 + 1000

\* the delay of the setTimeout that stops the recorder
StopDelay(i, duration) == duration * 1000 + (IF i = "simple" THEN 1000 ELSE 0)

\* timeline.progress() has reached 1: no endless tween and the playhead at the end
ProgressDone(tl, t) ==
    /\ tl.playing
    /\ \A k \in DOMAIN tl.tweens : tl.tweens[k].anim.repeat # InfiniteRepeat
    /\ t > tl.startedAt
    /\ \A k \in DOMAIN tl.tweens :
          t >= tl.startedAt + tl.tweens[k].at + tl.tweens[k].anim.duration
                  + tl.tweens[k].anim.stagger * (Len(applied.text) - 1)

\* what the synchronous part of exportVideo does, in program order
ExportEvents(i) ==
    IF i = "bridge"
    THEN <<"mediaRecorder.start", "timeline.restart", "renderer.render", "setTimeout">>
    ELSE <<"mediaRecorder.start", "globalTimeline.clear", "setTimeout">>

\* exportVideo({ duration }): the promise executor up to the setTimeout
ExportVideo(duration) ==
    LET k == Len(exports) + 1
    IN  /\ impl \in {"simple", "bridge"}
        /\ exports' = Append(exports,
              [start |-> now, duration |-> duration, recorder |-> "recording",
               chunks |-> <<>>, promise |-> "pending", blob |-> <<>>,
               stoppedAt |-> 0, events |-> ExportEvents(impl),
               capture |-> "available", error |-> ""])
        /\ timers' = timers \cup
              {[kind |-> "recorderStop", id |-> k,
                due |-> now + StopDelay(impl, duration)]}
        /\ timeline' = IF impl = "bridge"
                       THEN [timeline EXCEPT !.playing = TRUE, !.startedAt = now]
                       ELSE [timeline EXCEPT !.onGlobal = FALSE]
        /\ rafLoops' = IF impl = "bridge" THEN rafLoops + 1 ELSE rafLoops
        /\ UNCHANGED <<impl, now, stage, background, applied, layouts>>
        /\ UNCHANGED engineVars
        /\ UNCHANGED hostVars

\* the recording primitives that can be missing: the call that throws
CaptureFailures == {"canvas.captureStream", "new MediaRecorder"}

ExportVideoFramesFirst(duration, thrower) ==
    /\ impl \in {"simple", "bridge"}
    /\ exports' = Append(exports,
          [start |-> now, duration |-> duration, recorder |-> "none",
           chunks |-> <<>>, promise |-> "rejected", blob |-> <<>>,
           stoppedAt |-> 0, events |-> <<"timeline.restart", "canvas.captureStream">>,
           capture |-> thrower, error |-> thrower])
    /\ timeline' = [timeline EXCEPT !.playing = TRUE, !.startedAt = now]
    /\ rafLoops' = rafLoops + 1
    /\ UNCHANGED <<impl, now, stage, timers, background, applied, layouts>>
    /\ UNCHANGED engineVars
    /\ UNCHANGED hostVars

\* exportVideo when canvas.captureStream or the MediaRecorder constructor
\* throws: the catch of the promise executor rejects with the error
ExportVideoNoCapture(duration, thrower) ==
    /\ impl \in {"simple", "bridge"}
    /\ exports' = Append(exports,
          [start |-> now, duration |-> duration, recorder |-> "none",
           chunks |-> <<>>, promise |-> "rejected", blob |-> <<>>,
           stoppedAt |-> 0,
           events |-> IF thrower = "canvas.captureStream"
                      THEN <<"canvas.captureStream">>
                      ELSE <<"canvas.captureStream", "new MediaRecorder">>,
           capture |-> thrower, error |-> thrower])
    /\ UNCHANGED <<impl, now, stage, timers, background, timeline, applied, rafLoops, layouts>>
    /\ UNCHANGED engineVars
    /\ UNCHANGED hostVars

\* animation frames while a timer is pending: time passes up to the next
\* timer; the bridge's render loops render and stop once timeline.progress()
\* is 1
AnimationFrame ==
    /\ impl \in {"simple", "bridge"}
    /\ timers # {}
    /\ \A tm \in timers : tm.due > now
    /\ now' = MinOf({tm.due : tm \in timers})
    /\ rafLoops' = IF impl = "bridge" /\ ProgressDone(timeline, now') THEN 0
                   ELSE rafLoops
    /\ UNCHANGED <<impl, stage, timers, background, timeline, applied, exports, layouts>>
    /\ UNCHANGED engineVars
    /\ UNCHANGED hostVars

\* the timer of exportVideo fires: mediaRecorder.stop()
RecorderStopTimer(k) ==
    /\ impl \in {"simple", "bridge"}
    /\ k \in DOMAIN exports
    /\ \E tm \in timers :
        /\ tm.kind = "recorderStop" /\ tm.id = k /\ tm.due <= now
        /\ timers' = timers \ {tm}
    /\ exports' = [exports EXCEPT ![k].recorder = "inactive", ![k].stoppedAt = now]
    /\ UNCHANGED <<impl, now, stage, background, timeline, applied, rafLoops, layouts>>
    /\ UNCHANGED engineVars
    /\ UNCHANGED hostVars

\* the recorder, once stopped, delivers its data (ondataavailable) and then
\* fires stop (onstop): resolve(new Blob(chunks))
RecorderStopped(k, size) ==
    /\ impl \in {"simple", "bridge"}
    /\ k \in DOMAIN exports
    /\ exports[k].recorder = "inactive"
    /\ LET e == exports[k]
           chunks == IF size > 0 THEN Append(e.chunks, size) ELSE e.chunks
       IN  exports' = [exports EXCEPT ![k] =
              [e EXCEPT !.recorder = "ended", !.chunks = chunks, !.blob = chunks,
                        !.promise = IF e.promise = "pending" THEN "resolved" ELSE @]]
    /\ UNCHANGED <<impl, now, stage, timers, background, timeline, applied, rafLoops, layouts>>
    /\ UNCHANGED engineVars
    /\ UNCHANGED hostVars

-----------------------------------------------------------------------------
(* The renderers: initialize() and the dependency-polling waits *)

Libraries == {"THREE", "gsap", "TypeStorm"}
WaitNames == {"waitForThreeJS", "waitForGSAP", "waitForTypeStormModule"}

CheckInterval == 100          \* const checkInterval = 100
MaxWaitLibrary == 30000       \* const maxWaitTime = 30000 (Three.js, GSAP)
MaxWaitModule == 10000        \* const maxWaitTime = 10000 (TypeStorm module)

\* the global a wait polls for, and its maxWaitTime
WaitGlobal(w) ==
    CASE w = "waitForThreeJS" -> "THREE"
      [] w = "waitForGSAP" -> "gsap"
      [] OTHER -> "TypeStorm"

MaxWaitTime(w) == IF w = "waitForTypeStormModule" THEN MaxWaitModule ELSE MaxWaitLibrary

\* the libraries the page of each class loads with script tags
PageLibraries(i) ==
    CASE i = "simple" -> {"gsap"}
      [] i = "bridge" -> {"THREE", "gsap"}
      [] OTHER -> {"TypeStorm"}

\* the first wait initialize() of each class awaits
FirstWait(i) ==
    CASE i = "simple" -> "waitForGSAP"
      [] i = "bridge" -> "waitForThreeJS"
      [] OTHER -> "waitForTypeStormModule"

\* the promise executor of a wait before its first check.  polls counts the
\* runs of the check, undefinedPolls those that found the global undefined,
\* settled the calls of resolve or reject, again whether the last run called
\* setTimeout.
NewWait ==
    [waitTime |-> 0, promise |-> "pending", settled |-> 0, polls |-> 0,
     undefinedPolls |-> 0, again |-> FALSE]

Settle(r, outcome) ==
    [r EXCEPT !.promise = IF @ = "pending" THEN outcome ELSE @, !.settled = @ + 1]

checkForNoReturn(w, r) ==
    LET wt == r.waitTime + CheckInterval
        seen == IF WaitGlobal(w) \in globals
                THEN Settle([r EXCEPT !.polls = @ + 1], "resolved")
                ELSE [r EXCEPT !.polls = @ + 1, !.undefinedPolls = @ + 1]
    IN  IF wt >= MaxWaitTime(w)
        THEN [Settle(seen, "rejected") EXCEPT !.waitTime = wt, !.again = FALSE]
        ELSE [seen EXCEPT !.waitTime = wt, !.again = TRUE]

\* one run of checkForGSAP / checkForThreeJS / checkForModule
checkFor(w, r) ==
    IF WaitGlobal(w) \in globals
    THEN [Settle([r EXCEPT !.polls = @ + 1], "resolved") EXCEPT !.again = FALSE]
    ELSE LET wt == r.waitTime + CheckInterval
             seen == [r EXCEPT !.polls = @ + 1, !.undefinedPolls = @ + 1, !.waitTime = wt]
         IN  IF wt >= MaxWaitTime(w)
             THEN [Settle(seen, "rejected") EXCEPT !.again = FALSE]
             ELSE [seen EXCEPT !.again = TRUE]

\* setTimeout(checkFor..., checkInterval) when the run asked for it
PollTimers(w, r) ==
    IF r.again THEN {[kind |-> "poll", id |-> w, due |-> now + CheckInterval]} ELSE {}

\* a script tag finishes loading: its global becomes defined
LoadScript(lib) ==
    /\ impl \in {"simple", "bridge", "module"}
    /\ lib \in PageLibraries(impl)
    /\ lib \notin globals
    /\ globals' = globals \cup {lib}
    /\ UNCHANGED <<impl, now, stage, timers, waits, startup, reel>>
    /\ UNCHANGED engineVars
    /\ UNCHANGED rendererVars

\* initialize(config) up to its first await: the canvas is found and sized,
\* the wait starts and runs its first check
Initialize ==
    /\ impl \in {"simple", "bridge", "module"}
    /\ startup.initialize = "none"
    /\ \E w \in {FirstWait(impl)} : \E r \in {checkFor(w, NewWait)} :
          /\ waits' = (w :> r)
          /\ timers' = timers \cup PollTimers(w, r)
    /\ startup' = [startup EXCEPT !.initialize = "pending"]
    /\ UNCHANGED <<impl, now, stage, globals, reel>>
    /\ UNCHANGED engineVars
    /\ UNCHANGED rendererVars

\* the timer of a wait fires: the check runs again
PollTimer(w) ==
    /\ impl \in {"simple", "bridge", "module"}
    /\ w \in DOMAIN waits
    /\ \E tm \in timers :
        /\ tm.kind = "poll" /\ tm.id = w
        /\ now' = Max(now, tm.due)
        /\ \E r \in {checkFor(w, waits[w])} :
              /\ waits' = [waits EXCEPT ![w] = r]
              /\ timers' = (timers \ {tm})
                    \cup {[p EXCEPT !.due = now' + CheckInterval] : p \in PollTimers(w, r)}
    /\ UNCHANGED <<impl, stage, globals, startup, reel>>
    /\ UNCHANGED engineVars
    /\ UNCHANGED rendererVars

\* initialize() resumes after its awaited wait has settled.  A rejected wait
\* is rethrown by the catch.  The simple renderer starts its render loop; the
\* bridge sets up Three.js and calls initializeGSAP() without awaiting it,
\* which starts waitForGSAP; renderer.js constructs the engine of the dist
\* build, which is ready or not.  Then isReady = true and the promise
\* resolves.
InitializeResume(engineReady) ==
    /\ impl \in {"simple", "bridge", "module"}
    /\ startup.initialize = "pending"
    /\ FirstWait(impl) \in DOMAIN waits
    /\ waits[FirstWait(impl)].promise # "pending"
    /\ IF waits[FirstWait(impl)].promise = "rejected" \/ (impl = "module" /\ ~engineReady)
       THEN /\ startup' = [startup EXCEPT !.initialize = "rejected"]
            /\ UNCHANGED <<waits, timers, rafLoops>>
       ELSE /\ startup' = [initialize |-> "resolved", isReady |-> TRUE,
                           initializeGSAP |-> IF impl = "bridge" THEN "pending" ELSE "none"]
            /\ rafLoops' = IF impl = "simple" THEN rafLoops + 1 ELSE rafLoops
            /\ IF impl = "bridge"
               THEN \E r \in {checkFor("waitForGSAP", NewWait)} :
                      /\ waits' = waits @@ ("waitForGSAP" :> r)
                      /\ timers' = timers \cup PollTimers("waitForGSAP", r)
               ELSE UNCHANGED <<waits, timers>>
    /\ UNCHANGED <<impl, now, stage, globals, reel>>
    /\ UNCHANGED <<background, timeline, applied, exports, layouts>>
    /\ UNCHANGED engineVars

\* initializeGSAP() of the bridge resumes after waitForGSAP has settled:
\* this.timeline = gsap.timeline({ paused: true }), or its promise, which
\* nobody holds, rejects
InitializeGSAPResume ==
    /\ impl = "bridge"
    /\ startup.initializeGSAP = "pending"
    /\ "waitForGSAP" \in DOMAIN waits
    /\ waits["waitForGSAP"].promise # "pending"
    /\ startup' = [startup EXCEPT !.initializeGSAP = waits["waitForGSAP"].promise]
    /\ timeline' = IF waits["waitForGSAP"].promise = "resolved" THEN PausedTimeline
                   ELSE timeline
    /\ UNCHANGED <<impl, now, stage, timers, globals, waits, reel>>
    /\ UNCHANGED <<background, applied, exports, layouts, rafLoops>>
    /\ UNCHANGED engineVars

-----------------------------------------------------------------------------
(* One TextEngine, one playText call with any options, then stop / dispose *)

\* the renderer object before initialize() is called, and after it resolved
\* with every library loaded
NotInitialized == [initialize |-> "none", isReady |-> FALSE, initializeGSAP |-> "none"]
Initialized == [initialize |-> "resolved", isReady |-> TRUE, initializeGSAP |-> "resolved"]

\* no generateReel run.  child is the puppeteer process ("none", "running",
\* "closed" once its close event was handled), host the command-line process
\* that called generateReel, timeout the 5-minute timer, calls the number of
\* resolve / reject calls made.
NoReel ==
    [child |-> "none", host |-> "running", promise |-> "pending", error |-> "",
     calls |-> 0, hasErrored |-> FALSE, stderrError |-> FALSE, outputBuffer |-> FALSE,
     errorBuffer |-> FALSE, tempFile |-> FALSE, outputFile |-> FALSE,
     timeout |-> "none", code |-> -1, signal |-> ""]

NoApply ==
    [status |-> "none", call |-> 0, text |-> <<>>, name |-> "", error |-> <<>>,
     result |-> NoResult]

InitEngine ==
    /\ impl = "engine"
    /\ now = 0
    /\ mediaQuery \in BOOLEAN
    /\ prefersReducedMotion = mediaQuery
    /\ stage = <<>>
    /\ chars = <<>>
    /\ seqs = <<>>
    /\ tweens = {}
    /\ timers = {}
    /\ stopped = FALSE
    /\ entered = <<>>
    /\ latestEmbed = NoEmbed
    /\ background = ""
    /\ timeline = <<>>
    /\ applied = NoApply
    /\ exports = <<>>
    /\ layouts = <<>>
    /\ rafLoops = 0
    /\ globals = {"gsap"}
    /\ waits = <<>>
    /\ startup = NotInitialized
    /\ reel = NoReel

FirstPlayText == seqs = <<>> /\ \E text \in Texts, o \in AllOptions : PlayText(text, o)

NextEngine ==
    \/ FirstPlayText
    \/ Stop
    \/ Dispose
    \/ GsapTick
    \/ \E g \in DOMAIN seqs : LoopTimerFire(g)

SpecEngine == InitEngine /\ [][NextEngine]_vars

\* the loop hold durations the settings panel offers: 1 to 10 s in steps of 0.5 s
HoldDurations == {1000 + 500 * k : k \in 0..18}

\* looped sequences with every loop type and every hold duration, the
\* omitted one (0) included
HoldOptions ==
    [entrance : {"fade", "typewriter"}, loop : LoopTypes, exit : {"fade"},
     loopAnimation : {TRUE}, typewriterSpeed : {0}, duration : {0},
     loopDuration : HoldDurations \cup {0}]

FirstPlayTextHold ==
    seqs = <<>> /\ \E text \in Texts, o \in HoldOptions : PlayText(text, o)

NextHold ==
    \/ FirstPlayTextHold
    \/ GsapTick
    \/ \E g \in DOMAIN seqs : LoopTimerFire(g)

SpecHold == InitEngine /\ [][NextHold]_vars

\* the same engine when building the animation can fail
FirstPlayTextError ==
    seqs = <<>> /\ \E text \in Texts, o \in AllOptions : PlayTextError(text, o)

NextFault ==
    \/ NextEngine
    \/ FirstPlayTextError

SpecFault == InitEngine /\ [][NextFault]_vars

-----------------------------------------------------------------------------
(* Replays: one page with one of the three classes, called again and again.  *)
(* A TextEngine page repeats playText; a renderer page repeats applyPreset.   *)

Option(entrance, loop, exit, loopAnimation) ==
    [entrance |-> entrance, loop |-> loop, exit |-> exit,
     loopAnimation |-> loopAnimation, typewriterSpeed |-> 0, duration |-> 0,
     loopDuration |-> 0]

\* the replayed playText calls: the default options (a looped sequence) and a
\* single sequence, with the longest and the shortest text
ReplayCalls ==
    {[text |-> [i \in 1..MaxLen |-> SampleChar(i)],
      options |-> Option("fade", "pulse", "fade", TRUE)],
     [text |-> [i \in 1..1 |-> SampleChar(i)],
      options |-> Option("typewriter", "none", "scale", FALSE)]}

\* a renderer after a successful initialize(): the bridge holds the paused
\* timeline of initializeGSAP, the simple renderer runs its render loop
InitStage ==
    /\ impl \in {"engine", "simple", "bridge"}
    /\ now = 0
    /\ mediaQuery = FALSE
    /\ prefersReducedMotion = mediaQuery
    /\ stage = <<>>
    /\ chars = <<>>
    /\ seqs = <<>>
    /\ tweens = {}
    /\ timers = {}
    /\ stopped = FALSE
    /\ entered = <<>>
    /\ latestEmbed = NoEmbed
    /\ background = ""
    /\ timeline = IF impl = "bridge" THEN PausedTimeline
                  ELSE [PausedTimeline EXCEPT !.onGlobal = FALSE]
    /\ applied = NoApply
    /\ exports = <<>>
    /\ layouts = <<>>
    /\ rafLoops = IF impl = "simple" THEN 1 ELSE 0
    /\ globals = IF impl = "engine" THEN {"gsap"} ELSE {"THREE", "gsap"}
    /\ waits = <<>>
    /\ startup = IF impl = "engine" THEN NotInitialized ELSE Initialized
    /\ reel = NoReel

ReplayPlayText ==
    /\ Len(seqs) < MaxCalls
    /\ \E c \in ReplayCalls : PlayText(c.text, c.options)

ReplayApplyPreset ==
    /\ applied.call < MaxCalls
    /\ \E text \in Texts, name \in PresetNames : ApplyPreset(text, name)

NextStage ==
    \/ ReplayPlayText
    \/ GsapTick
    \/ \E g \in DOMAIN seqs : LoopTimerFire(g)
    \/ ReplayApplyPreset

SpecStage == InitStage /\ [][NextStage]_vars

\* the user switches the reduced-motion setting of the system or browser
PreferenceChange ==
    /\ impl = "engine"
    /\ mediaQuery' = ~mediaQuery
    /\ UNCHANGED <<impl, now, prefersReducedMotion, stage, chars, seqs, tweens, timers,
                   stopped, entered, latestEmbed>>
    /\ UNCHANGED rendererVars
    /\ UNCHANGED hostVars

\* a TextEngine page whose user changes the setting between and during
\* animations; the engine is constructed with either setting
InitMotion == InitEngine

NextMotion ==
    \/ ReplayPlayText
    \/ GsapTick
    \/ \E g \in DOMAIN seqs : LoopTimerFire(g)
    \/ PreferenceChange

SpecMotion == InitMotion /\ [][NextMotion]_vars

-----------------------------------------------------------------------------
(* Exports: a renderer page applies a preset and exports videos *)

InitExport == InitStage /\ impl \in {"simple", "bridge"}

FirstApplyPreset ==
    /\ applied.call = 0
    /\ exports = <<>>
    /\ \E text \in Texts, name \in PresetNames : ApplyPreset(text, name)

NextExport ==
    \/ FirstApplyPreset
    \/ (Len(exports) < MaxExports /\ \E d \in ExportDurations : ExportVideo(d))
    \/ AnimationFrame
    \/ \E k \in DOMAIN exports : RecorderStopTimer(k)
    \/ \E k \in DOMAIN exports, size \in {0, 1} : RecorderStopped(k, size)

SpecExport == InitExport /\ [][NextExport]_vars

\* a renderer page that computes layouts, before and after applying a preset
NextLayout ==
    \/ FirstApplyPreset
    \/ /\ Len(layouts) < MaxCalls
       /\ \E text \in Texts, layoutType \in LayoutTypes :
             GenerateLayout(text, layoutType, NoOptions)

SpecLayout == InitExport /\ [][NextLayout]_vars

\* a renderer page that is asked for one layout, of a text of up to MaxChars
\* characters, with the layout options left out or given
LongTexts == {[i \in 1..n |-> SampleChar(i)] : n \in 0..MaxChars}

LayoutOptions == [spacing : {0, 50}, radius : {0, 100}, turns : {0, 1, 3}]

NextGeometry ==
    /\ layouts = <<>>
    /\ \E text \in LongTexts, layoutType \in LayoutTypes, options \in LayoutOptions :
          GenerateLayout(text, layoutType, options)

SpecGeometry == InitExport /\ [][NextGeometry]_vars

\* a renderer page from the construction of its renderer: the scripts load at
\* any time or never, initialize() is called, and applyPreset once it resolved
InitStartup ==
    /\ impl \in {"simple", "bridge", "module"}
    /\ now = 0
    /\ mediaQuery = FALSE
    /\ prefersReducedMotion = mediaQuery
    /\ stage = <<>>
    /\ chars = <<>>
    /\ seqs = <<>>
    /\ tweens = {}
    /\ timers = {}
    /\ stopped = FALSE
    /\ entered = <<>>
    /\ latestEmbed = NoEmbed
    /\ background = ""
    /\ timeline = NullTimeline
    /\ applied = NoApply
    /\ exports = <<>>
    /\ layouts = <<>>
    /\ rafLoops = 0
    /\ globals \in SUBSET PageLibraries(impl)
    /\ waits = <<>>
    /\ startup = NotInitialized
    /\ reel = NoReel

ReadyApplyPreset ==
    /\ startup.initialize = "resolved"
    /\ applied.call = 0
    /\ ApplyPreset([i \in 1..MaxLen |-> SampleChar(i)], "neon")

NextStartup ==
    \/ \E lib \in Libraries : LoadScript(lib)
    \/ Initialize
    \/ \E w \in WaitNames : PollTimer(w)
    \/ \E engineReady \in BOOLEAN : InitializeResume(engineReady)
    \/ InitializeGSAPResume
    \/ ReadyApplyPreset

SpecStartup == InitStartup /\ [][NextStartup]_vars

-----------------------------------------------------------------------------
(* The command line: generateReel and its puppeteer subprocess *)

ExitCodes == {0, 1}
Signals == {"", "SIGTERM", "SIGKILL"}

\* resolve() / reject(new Error(...)): only the first call settles the promise
SettleReel(r, outcome, error) ==
    [r EXCEPT !.calls = @ + 1,
              !.promise = IF @ = "pending" THEN outcome ELSE @,
              !.error = IF r.promise = "pending" THEN error ELSE @]

\* generateReel(config) with a valid config: the temporary HTML file is
\* written, the subprocess is spawned and the timeout is set
GenerateReel ==
    /\ impl = "cli"
    /\ reel.child = "none"
    /\ reel' = [reel EXCEPT !.child = "running", !.tempFile = TRUE, !.timeout = "pending"]
    /\ UNCHANGED <<impl, now, stage, timers, globals, waits, startup>>
    /\ UNCHANGED engineVars
    /\ UNCHANGED rendererVars

\* puppeteerProcess.stdout.on('data')
StdoutData ==
    /\ impl = "cli"
    /\ reel.child = "running" /\ reel.host = "running"
    /\ ~reel.outputBuffer
    /\ reel' = [reel EXCEPT !.outputBuffer = TRUE]
    /\ UNCHANGED <<impl, now, stage, timers, globals, waits, startup>>
    /\ UNCHANGED engineVars
    /\ UNCHANGED rendererVars

\* puppeteerProcess.stderr.on('data'): a line with 'Error:', 'Fatal:' or the
\* cross mark sets hasErrored
StderrData(errorLine) ==
    /\ impl = "cli"
    /\ reel.child = "running" /\ reel.host = "running"
    /\ reel' = [reel EXCEPT !.errorBuffer = TRUE,
                            !.hasErrored = @ \/ errorLine,
                            !.stderrError = @ \/ errorLine]
    /\ UNCHANGED <<impl, now, stage, timers, globals, waits, startup>>
    /\ UNCHANGED engineVars
    /\ UNCHANGED rendererVars

\* the subprocess writes the video file
OutputWritten ==
    /\ impl = "cli"
    /\ reel.child = "running"
    /\ ~reel.outputFile
    /\ reel' = [reel EXCEPT !.outputFile = TRUE]
    /\ UNCHANGED <<impl, now, stage, timers, globals, waits, startup>>
    /\ UNCHANGED engineVars
    /\ UNCHANGED rendererVars

\* the two 'close' listeners, in the order they were registered: remove the
\* temporary file and settle the promise, then clearTimeout
onClose(r, code, signal) ==
    LET cleaned == [r EXCEPT !.child = "closed", !.tempFile = FALSE, !.code = code,
                             !.signal = signal,
                             !.timeout = IF @ = "pending" THEN "cleared" ELSE @]
    IN  IF signal # ""
        THEN SettleReel(cleaned, "rejected", "killed with signal")
        ELSE IF code = 0 /\ ~r.hasErrored
        THEN IF r.outputFile
             THEN SettleReel(cleaned, "resolved", "")
             ELSE SettleReel(cleaned, "rejected", "Output file was not created")
        ELSE SettleReel(cleaned, "rejected",
                        IF r.errorBuffer THEN "failed: stderr"
                        ELSE IF r.outputBuffer THEN "failed: stdout"
                        ELSE "failed: exit code")

\* the subprocess has ended and its streams are closed: 'close' (code, signal)
ProcessClose(code, signal) ==
    /\ impl = "cli"
    /\ reel.child = "running" /\ reel.host = "running"
    /\ reel' = onClose(reel, IF signal = "" THEN code ELSE -1, signal)
    /\ UNCHANGED <<impl, now, stage, timers, globals, waits, startup>>
    /\ UNCHANGED engineVars
    /\ UNCHANGED rendererVars

\* the subprocess could not be spawned: 'error', and in the same tick 'close'
\* with the negative error number as the code
SpawnError ==
    /\ impl = "cli"
    /\ reel.child = "running" /\ reel.host = "running"
    /\ ~reel.outputBuffer /\ ~reel.errorBuffer /\ ~reel.outputFile
    /\ reel.timeout = "pending"
    /\ reel' = onClose(SettleReel([reel EXCEPT !.hasErrored = TRUE], "rejected",
                                  "Failed to start puppeteer process"),
                       -2, "")
    /\ UNCHANGED <<impl, now, stage, timers, globals, waits, startup>>
    /\ UNCHANGED engineVars
    /\ UNCHANGED rendererVars

\* the 5-minute timer fires: hasErrored = true, kill('SIGTERM'), reject
ReelTimeout ==
    /\ impl = "cli"
    /\ reel.child = "running" /\ reel.host = "running"
    /\ reel.timeout = "pending"
    /\ reel' = SettleReel([reel EXCEPT !.hasErrored = TRUE, !.timeout = "fired"],
                          "rejected", "timed out after 5 minutes")
    /\ UNCHANGED <<impl, now, stage, timers, globals, waits, startup>>
    /\ UNCHANGED engineVars
    /\ UNCHANGED rendererVars

\* the catch of the command that awaited generateReel: process.exit(1)
CommandCatch ==
    /\ impl = "cli"
    /\ reel.promise = "rejected" /\ reel.host = "running"
    /\ reel' = [reel EXCEPT !.host = "exited"]
    /\ UNCHANGED <<impl, now, stage, timers, globals, waits, startup>>
    /\ UNCHANGED engineVars
    /\ UNCHANGED rendererVars

InitReel ==
    /\ impl = "cli"
    /\ now = 0
    /\ mediaQuery = FALSE
    /\ prefersReducedMotion = mediaQuery
    /\ stage = <<>>
    /\ chars = <<>>
    /\ seqs = <<>>
    /\ tweens = {}
    /\ timers = {}
    /\ stopped = FALSE
    /\ entered = <<>>
    /\ latestEmbed = NoEmbed
    /\ background = ""
    /\ timeline = NullTimeline
    /\ applied = NoApply
    /\ exports = <<>>
    /\ layouts = <<>>
    /\ rafLoops = 0
    /\ globals = {}
    /\ waits = <<>>
    /\ startup = NotInitialized
    /\ reel = NoReel

NextReel ==
    \/ GenerateReel
    \/ StdoutData
    \/ \E errorLine \in BOOLEAN : StderrData(errorLine)
    \/ OutputWritten
    \/ \E code \in ExitCodes, signal \in Signals : ProcessClose(code, signal)
    \/ SpawnError
    \/ ReelTimeout
    \/ CommandCatch

SpecReel == InitReel /\ [][NextReel]_vars

\* the same page in a browser where a recording primitive may be missing
NextCapture ==
    \/ NextExport
    \/ /\ Len(exports) < MaxExports
       /\ \E d \in ExportDurations, thrower \in CaptureFailures :
             ExportVideoNoCapture(d, thrower)

SpecCapture == InitExport /\ [][NextCapture]_vars

\* timers fire when due, queued recorder events are delivered, frames keep coming
FairExport ==
    /\ SpecExport
    /\ WF_vars(AnimationFrame)
    /\ \A k \in 1..MaxExports : WF_vars(RecorderStopTimer(k))
    /\ \A k \in 1..MaxExports : WF_vars(\E size \in {0, 1} : RecorderStopped(k, size))

-----------------------------------------------------------------------------
(* Properties of the TextEngine *)

Cycling(g) == seqs[g].cfg.loopAnimation
LiveOf(g, c, phases) == {t \in tweens : t.gen = g /\ t.cyc = c /\ t.phase \in phases}

\* C1: after any sequence of playText calls at most one animation sequence is
\* live: every live tween and every pending loopSequence restart belongs to
\* the most recent playText call.
C1_OneLiveSequence ==
    impl = "engine" =>
        /\ \A t \in tweens : t.gen = Len(seqs)
        /\ \A tm \in timers : tm.kind = "loopSequence" => tm.id = Len(seqs)

\* C2: once stop() or dispose() has been called, no tween update, onComplete
\* callback or scheduled loopSequence restart runs again: the characters, the
\* sequences, the tweens and the timers stay as they are.
C2_NothingRunsAfterStop ==
    [][(stopped /\ stopped') => UNCHANGED <<chars, seqs, tweens, timers>>]_vars

\* C3: in cycling mode with an exit animation, each cycle runs Entering, then
\* Looping, then Exiting strictly in that order: a loop or hold tween of a
\* cycle has started only when no entrance tween of that cycle is left, and an
\* exit tween has started only when no entrance, loop or hold tween is left.
C3_PhasesInOrder ==
    \A t \in tweens :
        (Cycling(t.gen) /\ seqs[t.gen].cfg.exit # "none" /\ t.started) =>
            /\ t.phase \in {"loop", "hold"} =>
                  LiveOf(t.gen, t.cyc, {"set", "entrance"}) = {}
            /\ t.phase = "exit" =>
                  LiveOf(t.gen, t.cyc, {"set", "entrance", "loop", "hold"}) = {}

\* C4: in non-cycling mode the loop tween (repeat -1) is started only after
\* the entrance promise has resolved, and the sequence never gets an exit
\* animation, a hold, or a scheduled restart: it stays in Looping.
C4_SingleSequenceLoopsForever ==
    \A g \in DOMAIN seqs : ~Cycling(g) =>
        /\ seqs[g].pc \in {"idle", "entrance", "looping"}
        /\ seqs[g].pc = "idle" <=> seqs[g].n = 0
        /\ \A t \in tweens : t.gen = g => t.phase \in {"entrance", "loop"}
        /\ \A tm \in timers : tm.kind = "loopSequence" => tm.id # g
        /\ \A t \in tweens : (t.gen = g /\ t.phase = "loop") =>
              /\ seqs[g].pc = "looping"
              /\ t.repeat = InfiniteRepeat
              /\ t.s >= seqs[g].awaitEnd
              /\ LiveOf(g, t.cyc, {"entrance"}) = {}
        /\ (seqs[g].pc = "looping" /\ ~prefersReducedMotion) =>
              \A i \in 1..seqs[g].n :
                  \E t \in tweens : t.gen = g /\ t.phase = "loop" /\ t.idx = i

C4_Looping ==
    \E g \in DOMAIN seqs :
        /\ ~Cycling(g)
        /\ seqs[g].pc = "looping"
        /\ now > seqs[g].awaitEnd
        /\ \E t \in tweens : t.gen = g /\ t.phase = "loop" /\ t.started

\* C5: in cycling mode the next Entering is started exactly 500 ms after
\* Exiting has completed, and the characters are at the start of every later
\* Entering in the state they had at the start of the first Entering.
C5_EnteringRestartsIdentically ==
    /\ \A g \in DOMAIN seqs : Cycling(g) => entered[g].last = entered[g].first
    /\ \A tm \in timers : tm.kind = "loopSequence" =>
          /\ LiveOf(tm.id, seqs[tm.id].cyc, {"exit"}) = {}
          /\ seqs[tm.id].cfg.exit = "typewriter" =>
                tm.due = seqs[tm.id].awaitEnd + InterCycleDelay

\* C8: under prefers-reduced-motion no loop tween exists, the entrance tweens
\* of a cycle all start together and end within 100 ms, so do its exit tweens,
\* and a cycle is over within 200 ms plus the hold duration.
C8_ReducedMotionIsShort ==
    prefersReducedMotion =>
        /\ \A t \in tweens : t.phase # "loop"
        /\ \A t, u \in tweens :
              (t.gen = u.gen /\ t.cyc = u.cyc /\ t.phase = u.phase
                  /\ t.phase \in {"entrance", "exit"}) =>
                  (u.s = t.s /\ End(u) - t.s <= 100)
        /\ \A tm \in timers : tm.kind = "loopSequence" =>
              tm.due - InterCycleDelay - seqs[tm.id].tlStart
                  <= 200 + seqs[tm.id].cfg.loopDuration

\* C25: the reduced-motion preference is read once per playText call: the
\* entrance and exit tweens of a call last 0.1 s without stagger exactly when
\* the preference was set at the time of the call, a loop tween exists only
\* for a call made while it was not set, and a change of the preference while
\* an animation runs changes nothing of it.
C25_PreferenceReadPerCall ==
    /\ \A t \in tweens :
          LET sq == seqs[t.gen]
          IN  /\ (t.phase \in {"entrance", "exit"} /\ t.tl # "typewriter") =>
                    t.dur = IF sq.preference THEN 100 ELSE OrDefault(sq.cfg.duration, 300)
              /\ t.phase = "loop" => ~sq.preference
    /\ \A t, u \in tweens :
          (/\ t.gen = u.gen /\ t.cyc = u.cyc /\ t.phase = u.phase
           /\ t.phase \in {"entrance", "exit"} /\ t.tl # "typewriter") =>
              u.s - t.s = IF seqs[t.gen].preference THEN 0 ELSE 20 * (u.idx - t.idx)

\* C27: after any sequence of playText calls with non-empty text, once no
\* playText call is still awaiting its entrance, window.latestEmbed describes
\* the text and the options of the most recent call.
C27_EmbedOfLatestCall ==
    (/\ impl = "engine"
     /\ seqs # <<>>
     /\ \A g \in DOMAIN seqs : seqs[g].n > 0 /\ seqs[g].pc # "entrance") =>
        latestEmbed = generateEmbedCode(seqs[Len(seqs)].text, seqs[Len(seqs)].cfg)

-----------------------------------------------------------------------------
(* Properties of the typewriter entrance and exit *)

\* C23: the typewriter entrance reveals the characters in index order
\* (character i no later than character j for i < j) and, for n characters at
\* `speed` characters per second, its promise resolves n / speed seconds after
\* it started.
C23_TypewriterEntranceTakesNOverSpeed ==
    /\ \A t, u \in tweens :
          (/\ seqs[t.gen].cfg.entrance = "typewriter"
           /\ t.phase = "entrance" /\ u.phase = "entrance"
           /\ t.gen = u.gen /\ t.cyc = u.cyc /\ t.idx < u.idx) =>
              (t.s <= u.s /\ End(t) <= End(u))
    /\ \A g \in DOMAIN seqs :
          (seqs[g].cfg.entrance = "typewriter" /\ seqs[g].pc \in {"entrance", "twEntrance"}) =>
              (seqs[g].awaitEnd - seqs[g].tlStart) * seqs[g].cfg.typewriterSpeed
                  = seqs[g].n * 1000

\* C24: the typewriter exit hides the characters in reverse index order (the
\* last character first, character 0 last) in n / speed seconds in all, and
\* the entrance of the next cycle again reveals the characters first to last.
C24_TypewriterExitTakesNOverSpeed ==
    /\ \A t, u \in tweens :
          (/\ seqs[t.gen].cfg.exit = "typewriter"
           /\ t.phase = "exit" /\ u.phase = "exit"
           /\ t.gen = u.gen /\ t.cyc = u.cyc /\ t.idx < u.idx) =>
              (u.s <= t.s /\ End(u) <= End(t))
    /\ \A t, u \in tweens :
          (/\ seqs[t.gen].cfg.exit = "typewriter"
           /\ seqs[t.gen].cfg.entrance = "typewriter"
           /\ t.phase = "entrance" /\ u.phase = "entrance"
           /\ t.gen = u.gen /\ t.cyc = u.cyc /\ t.cyc > 1 /\ t.idx < u.idx) =>
              t.s <= u.s
    /\ \A t \in tweens :
          (/\ seqs[t.gen].cfg.exit = "typewriter" /\ seqs[t.gen].pc = "twExit"
           /\ t.phase = "exit" /\ t.cyc = seqs[t.gen].cyc /\ t.idx = seqs[t.gen].n) =>
              (seqs[t.gen].awaitEnd - t.s) * seqs[t.gen].cfg.typewriterSpeed
                  = seqs[t.gen].n * 1000

-----------------------------------------------------------------------------
(* Properties of the stage and of applyPreset *)

Renderer == impl \in {"simple", "bridge"}

\* C6: an applyPreset call with a name that is not a registered preset is
\* rejected with an error that names the preset, and leaves the elements, the
\* background and the timeline of the previous successful call unchanged.
C6_UnknownPresetLeavesStage ==
    [][(/\ applied.status = "resolved"
        /\ applied'.call = applied.call + 1
        /\ applied'.name \notin RegisteredPresets) =>
            /\ applied'.status = "rejected"
            /\ applied'.error = <<"Preset not found", applied'.name>>
            /\ UNCHANGED <<stage, background, timeline>>]_vars

\* C7: after successful playText / applyPreset calls the stage holds exactly
\* one element per character of the most recent text, in index order, all made
\* by the most recent call.
C7_StageHoldsLatestText ==
    /\ (impl = "engine" /\ seqs # <<>>) =>
          LET text == seqs[Len(seqs)].text
          IN  /\ Len(stage) = Len(text)
              /\ \A i \in DOMAIN stage :
                    /\ stage[i].gen = Len(seqs)
                    /\ stage[i].idx = i
                    /\ stage[i].ch = IF text[i] = " " THEN NBSP ELSE text[i]
    /\ (Renderer /\ applied.status = "resolved") =>
          /\ Len(stage) = Len(applied.text)
          /\ \A i \in DOMAIN stage :
                /\ stage[i].gen = applied.call
                /\ stage[i].idx = i
                /\ stage[i].ch = applied.text[i]
                /\ stage[i].style = applied.name

C7_SecondCallOnStage ==
    /\ Renderer
    /\ applied.status = "resolved"
    /\ applied.call = MaxCalls
    /\ Len(stage) = 1

-----------------------------------------------------------------------------
(* Properties of exportVideo *)

StopLimit(e) == e.start + e.duration * 1000 + (IF impl = "simple" THEN 1000 ELSE 0)

EndlessTimeline ==
    \E k \in DOMAIN timeline.tweens : timeline.tweens[k].anim.repeat = InfiniteRepeat

C10_RecorderStartsAfterFirstFrame ==
    \A k \in DOMAIN exports :
        LET ev == exports[k].events
        IN  \E i, j, r \in DOMAIN ev :
                /\ ev[i] = "timeline.restart"
                /\ ev[j] = "renderer.render"
                /\ ev[r] = "mediaRecorder.start"
                /\ i < j
                /\ j < r

\* C28: the render loop that exportVideo of the bridge starts stops: once the
\* recorder has been stopped and the export promise has resolved, eventually
\* no render loop requests another animation frame, whatever preset was
\* applied.
C28_RenderLoopStops ==
    \A k \in 1..MaxExports :
        (impl = "bridge" /\ Len(exports) >= k /\ exports[k].promise = "resolved")
            ~> (rafLoops = 0)

\* C11: while an export is recording, the timeline built by the preceding
\* applyPreset is playing, restarted from time 0 when the recording began or
\* later, in both renderers.
C11_TimelinePlaysWhileRecording ==
    \A k \in DOMAIN exports :
        (exports[k].recorder = "recording" /\ applied.status = "resolved") =>
            /\ timeline.playing
            /\ timeline.startedAt >= exports[k].start

\* C12: an exportVideo call made while an earlier export of the same renderer
\* has not settled is rejected with a ConcurrentExportError, creates no
\* recorder and does not restart the timeline.
C12_OneExportAtATime ==
    [][(/\ Len(exports') = Len(exports) + 1
        /\ \E j \in DOMAIN exports : exports[j].promise = "pending") =>
            /\ exports'[Len(exports')].promise = "rejected"
            /\ exports'[Len(exports')].error = "ConcurrentExportError"
            /\ exports'[Len(exports')].recorder = "none"
            /\ UNCHANGED <<timeline, timers>>]_vars

\* C13: an exportVideo call in which canvas.captureStream or the MediaRecorder
\* constructor throws is rejected with that error at once, before any frame
\* work: no recorder runs, the timeline is not restarted, no render loop is
\* started and no stop timer is set.
C13_CaptureUnavailableRejects ==
    [][(/\ Len(exports') = Len(exports) + 1
        /\ exports'[Len(exports')].capture \in CaptureFailures) =>
            /\ exports'[Len(exports')].promise = "rejected"
            /\ exports'[Len(exports')].error = exports'[Len(exports')].capture
            /\ exports'[Len(exports')].recorder = "none"
            /\ \A i \in DOMAIN exports'[Len(exports')].events :
                  exports'[Len(exports')].events[i] \notin
                      {"mediaRecorder.start", "timeline.restart", "renderer.render",
                       "globalTimeline.clear", "setTimeout"}
            /\ UNCHANGED <<now, timeline, timers, rafLoops, stage>>]_vars

C13_RejectedWithoutRecorder ==
    \E k \in DOMAIN exports :
        /\ exports[k].promise = "rejected"
        /\ exports[k].capture = "new MediaRecorder"
        /\ applied.status = "resolved"
        /\ timers = {}

\* C14: when an error is raised while the animation of a playText call is
\* built, in cycling and in non-cycling mode, playText catches it and every
\* character of the call ends with opacity 1.
C14_ErrorLeavesTextVisible ==
    \A g \in DOMAIN seqs :
        seqs[g].fault # "none" =>
            /\ seqs[g].fault = "caught"
            /\ \A i \in DOMAIN chars[g] : chars[g][i].opacity = 100

-----------------------------------------------------------------------------
(* Properties of generateLayout *)

\* C15: for every text of length n and every layoutType, generateLayout
\* returns n positions, the i-th carrying the i-th character of the text with
\* scale 1 and opacity 1; for the empty text it returns the empty array.
C15_OnePositionPerCharacter ==
    \A k \in DOMAIN layouts :
        LET e == layouts[k]
        IN  /\ Len(e.positions) = Len(e.text)
            /\ \A i \in DOMAIN e.positions :
                  /\ e.positions[i].char = e.text[i]
                  /\ e.positions[i].scale = 100
                  /\ e.positions[i].opacity = 100

C15_EmptyAndFullText ==
    \E j, k \in DOMAIN layouts :
        /\ layouts[j].text = <<>>
        /\ layouts[j].positions = <<>>
        /\ layouts[k].layoutType \notin {"grid", "spiral", "radial"}
        /\ Len(layouts[k].positions) = MaxLen

C21_GridGeometry ==
    \A k \in DOMAIN layouts :
        LET e == layouts[k]
            n == Len(e.text)
            pos == e.positions
            spacing == IF e.options.spacing = 0 THEN 100 ELSE e.options.spacing
        IN  (e.layoutType \notin {"spiral", "radial"} /\ n > 0) =>
              \E cols, rows \in 1..n :
                /\ cols * cols >= n /\ (cols - 1) * (cols - 1) < n
                /\ rows * cols >= n /\ (rows - 1) * cols < n
                /\ \A i, j \in 0..(n - 1) :
                      /\ pos[j + 1].x - pos[i + 1].x
                            = 2 * spacing * ((j % cols) - (i % cols))
                      /\ pos[j + 1].y - pos[i + 1].y
                            = 2 * spacing * ((j \div cols) - (i \div cols))
                /\ \E i, j \in 1..n :
                      /\ \A m \in 1..n : pos[i].x <= pos[m].x /\ pos[m].x <= pos[j].x
                      /\ pos[i].x + pos[j].x = 2 * CanvasWidth
                /\ \E i, j \in 1..n :
                      /\ \A m \in 1..n : pos[i].y <= pos[m].y /\ pos[m].y <= pos[j].y
                      /\ pos[i].y + pos[j].y = 2 * CanvasHeight
                /\ \A i \in 1..n : pos[i].rotation[1] = 0 /\ pos[i].scale = 100

C21_PartlyFilledLastRow ==
    \E k \in DOMAIN layouts :
        /\ layouts[k].layoutType = "wave"
        /\ Len(layouts[k].positions) = 7
        /\ layouts[k].options.spacing = 50
        /\ layouts[k].positions[7].x < layouts[k].positions[3].x
        /\ layouts[k].positions[7].y > layouts[k].positions[3].y

\* C22: in the spiral layout with turns >= 1, character i has the angle
\* (i / n) * turns * 360 degrees and the radius radius * (i / n); its rotation
\* is that angle less a whole number of full turns and lies in [0, 360); the
\* angle never decreases with the index, and neither does the rotation between
\* two characters of the same turn.
C22_SpiralRotation ==
    \A k \in DOMAIN layouts :
        LET e == layouts[k]
            n == Len(e.text)
            pos == e.positions
            turns == IF e.options.turns = 0 THEN 2 ELSE e.options.turns
            radius == IF e.options.radius = 0 THEN 200 ELSE e.options.radius
            \* the angle of character i in n-ths of a full turn
            angle == [i \in 1..n |-> (i - 1) * turns]
        IN  (e.layoutType = "spiral" /\ turns >= 1) =>
              /\ \A i \in 1..n :
                    LET rot == pos[i].rotation
                    IN  /\ rot[2] > 0 /\ 0 <= rot[1] /\ rot[1] < rot[2]
                        /\ \E w \in 0..turns :
                              (rot[1] + w * rot[2]) * n = angle[i] * rot[2]
                        /\ pos[i].x.cos[1] * n = angle[i] * pos[i].x.cos[2]
                        /\ pos[i].y.sin[1] * n = angle[i] * pos[i].y.sin[2]
                        /\ pos[i].x.radius[1] * n = radius * (i - 1) * pos[i].x.radius[2]
                        /\ pos[i].y.radius = pos[i].x.radius
              /\ \A i, j \in 1..n :
                    (i < j /\ angle[i] \div n = angle[j] \div n) =>
                        pos[i].rotation[1] * pos[j].rotation[2]
                            <= pos[j].rotation[1] * pos[i].rotation[2]

C22_RotationWraps ==
    \E k \in DOMAIN layouts :
        /\ layouts[k].layoutType = "spiral"
        /\ layouts[k].options.turns = 3
        /\ Len(layouts[k].positions) = 10
        /\ layouts[k].positions[5].rotation[1] < layouts[k].positions[4].rotation[1]
        /\ layouts[k].positions[5].x.cos[1] > layouts[k].positions[4].x.cos[1]

-----------------------------------------------------------------------------
(* Properties of initialize() and of the waits *)

\* C26: whenever initialize() of the bridge has resolved (isReady is true),
\* initializeGSAP has completed and this.timeline is a timeline; when GSAP
\* never loads, initialize() rejects; so an applyPreset call made after
\* initialize() resolved never fails in clearScene on a missing timeline.
C26_ReadyMeansTimeline ==
    impl = "bridge" =>
        /\ startup.initialize = "resolved" =>
              /\ startup.isReady
              /\ startup.initializeGSAP = "resolved"
              /\ timeline # NullTimeline
        /\ ("waitForGSAP" \in DOMAIN waits /\ waits["waitForGSAP"].promise = "rejected") =>
              startup.initialize = "rejected"
        /\ applied.error # <<"TypeError", "this.timeline is null">>

\* C29: each dependency-polling wait settles exactly once.  It resolves at
\* the first check that finds the global defined; otherwise it rejects at the
\* check at which the accumulated wait reaches the maximum, the 300th check
\* for 30 s and the 100th for 10 s; while it is pending exactly one check is
\* scheduled, and once it has settled none is.
C29_WaitSettlesOnce ==
    \A w \in DOMAIN waits :
        LET r == waits[w]
            scheduled == {tm \in timers : tm.kind = "poll" /\ tm.id = w}
        IN  /\ r.settled <= 1
            /\ r.promise = "pending" <=> r.settled = 0
            /\ r.waitTime = 100 * r.undefinedPolls
            /\ r.promise = "pending" =>
                  /\ Cardinality(scheduled) = 1
                  /\ r.polls = r.undefinedPolls
                  /\ r.polls < (IF w = "waitForTypeStormModule" THEN 100 ELSE 300)
            /\ r.promise # "pending" => scheduled = {}
            /\ r.promise = "resolved" =>
                  /\ WaitGlobal(w) \in globals
                  /\ r.polls = r.undefinedPolls + 1
            /\ r.promise = "rejected" =>
                  /\ r.polls = r.undefinedPolls
                  /\ r.polls = (IF w = "waitForTypeStormModule" THEN 100 ELSE 300)

C29_LateAndNever ==
    /\ DOMAIN waits = {"waitForThreeJS", "waitForGSAP"}
    /\ waits["waitForThreeJS"].promise = "resolved"
    /\ waits["waitForThreeJS"].polls = 300
    /\ waits["waitForGSAP"].promise = "rejected"
    /\ waits["waitForGSAP"].polls = 300
    /\ now = 59800

\* C30: however a generateReel subprocess run ends (exit code 0, another exit
\* code, a signal, a spawn error or the 5-minute timeout), the promise, which
\* settles once, resolves only when the exit code is 0, no error line was seen
\* on stderr and the output file exists; and once it has settled the temporary
\* HTML file has been removed and the timeout timer is no longer pending.
C30_ReelEndsCleanly ==
    /\ reel.promise = "resolved" =>
           (reel.code = 0 /\ reel.signal = "" /\ ~reel.stderrError /\ reel.outputFile)
    /\ reel.promise # "pending" => (~reel.tempFile /\ reel.timeout # "pending")

-----------------------------------------------------------------------------
(* Properties of the timeline applyPreset builds *)

\* C17: applyPreset with a registered preset and a non-empty text resolves
\* with a duration greater than 0, fps 30 and one element of characters per
\* character of the text.
C17_PresetResult ==
    (Renderer /\ applied.status = "resolved" /\ applied.text # <<>>) =>
        /\ applied.name \in RegisteredPresets
        /\ applied.result.duration.endless \/ applied.result.duration.ms > 0
        /\ applied.result.fps = 30
        /\ Len(applied.result.characters) = Len(applied.text)
        /\ applied.result.characters = stage

C17_AppliedToFullText ==
    /\ Renderer
    /\ applied.status = "resolved"
    /\ Len(applied.text) = MaxLen
    /\ applied.result.fps = 30
    /\ Len(applied.result.characters) = MaxLen

\* C18: in the timeline applyPreset builds, an animation that repeats forever
\* and follows an entrance animation does not start before the entrance has
\* ended for the last character, duration + stagger * (n - 1) after its start.
C18_LoopAfterEntrance ==
    (Renderer /\ applied.status = "resolved" /\ applied.text # <<>>) =>
        \A j, k \in DOMAIN timeline.tweens :
            (/\ j < k
             /\ timeline.tweens[j].anim.repeat # InfiniteRepeat
             /\ timeline.tweens[k].anim.repeat = InfiniteRepeat) =>
                timeline.tweens[k].at >=
                    timeline.tweens[j].at + timeline.tweens[j].anim.duration
                        + timeline.tweens[j].anim.stagger * (Len(applied.text) - 1)

-----------------------------------------------------------------------------
(* Properties of the hold phase *)

LoopPhaseDuration(type) ==
    CASE type = "pulse" -> 2000 [] type = "tilt" -> 4000 [] type = "hue" -> 6000

\* C19: in cycling mode the loop tween of the hold phase lasts 2 s (pulse),
\* 4 s (tilt) or 6 s (hue) per play and is given the repeat count
\* floor(holdDuration / that duration).
C19_RepeatIsFloorOfHold ==
    \A t \in tweens :
        (Cycling(t.gen) /\ t.phase = "loop") =>
            LET cfg == seqs[t.gen].cfg
            IN  /\ ~prefersReducedMotion
                /\ cfg.loop # "none"
                /\ t.dur = LoopPhaseDuration(cfg.loop)
                /\ t.repeat * LoopPhaseDuration(cfg.loop) <= cfg.loopDuration
                /\ cfg.loopDuration < (t.repeat + 1) * LoopPhaseDuration(cfg.loop)

C19_HoldFiveLoopTwo ==
    \E t \in tweens :
        /\ Cycling(t.gen)
        /\ t.phase = "loop"
        /\ t.started
        /\ seqs[t.gen].cfg.loopDuration = 5000
        /\ t.dur = 2000
        /\ t.repeat = 2

\* C20: in cycling mode the plays of the loop tween of a cycle, the first one
\* included, together take no longer than the hold duration.
C20_LoopFitsInHold ==
    \A t \in tweens :
        (Cycling(t.gen) /\ t.phase = "loop") =>
            t.dur * (t.repeat + 1) <= seqs[t.gen].cfg.loopDuration

====
